---- MODULE Spec2Model ----
(***************************************************************************)
(* Model of main.py, the single-endpoint OpenDART proxy (annual-only).     *)
(*                                                                         *)
(* Two process-wide caches are modelled: the identifier snapshot           *)
(* (CORP_MAP, CORP_MAP_TS) and the statement cache (FS_CACHE,              *)
(* FS_CACHE_TS).  Request handlers are asyncio coroutines: a handler runs  *)
(* atomically between two awaits on an upstream call, so every action of   *)
(* the model is the code executed between two suspension points.           *)
(*                                                                         *)
(* Text is modelled as tuples of one-character strings so that strip(),    *)
(* upper(), split(",") and sorted() are computed, not assumed.             *)
(* An Optional value is <<>> (None) or <<v>>.                              *)
(***************************************************************************)
EXTENDS Integers, Sequences, FiniteSets, TLC

VARIABLES
    clock,          \* seconds since process start, the value _utcnow() returns
    CORP_MAP,       \* stock_code -> corporate record
    CORP_MAP_TS,    \* Optional timestamp of the installed snapshot
    FS_CACHE,       \* key -> upstream JSON of fnlttSinglAcntAll
    FS_CACHE_TS,    \* key -> timestamp
    pc,             \* per handler: the await it is suspended at
    args,           \* per handler: the validated call arguments
    now,            \* per handler: the local variable now
    info,           \* per handler: the record returned by _corp_from_stock_code
    out,            \* Optional status code of the response the step just taken
                    \* sent, with the stage of the handler that sent it
    lastHit,        \* history: Optional last response served from the cache
                    \* since the clock last advanced
    fillsSince,     \* history: was the key of lastHit filled since lastHit
    pRows, pSjDiv, pSjDivIn, pCursor, pLimit,  \* inputs of the paginator
    pStart,         \* the cursor of the first page request
    pOut,           \* Optional page returned for the inputs
    pAcc            \* pages collected while following next_cursor

sysVars == <<clock, CORP_MAP, CORP_MAP_TS, FS_CACHE, FS_CACHE_TS,
             pc, args, now, info, out>>
histVars == <<lastHit, fillsSince>>
pageVars == <<pRows, pSjDiv, pSjDivIn, pCursor, pLimit, pStart, pOut, pAcc>>
vars == <<clock, CORP_MAP, CORP_MAP_TS, FS_CACHE, FS_CACHE_TS,
          pc, args, now, info, out, lastHit, fillsSince,
          pRows, pSjDiv, pSjDivIn, pCursor, pLimit, pStart, pOut, pAcc>>

----------------------------------------------------------------------------
(* Program constants                                                       *)

CORP_MAP_TTL_SEC == 24 * 60 * 60
FS_CACHE_TTL_SEC == 6 * 60 * 60
MAX_LIMIT == 500
MIN_LIMIT == 50

None == << >>
Some(v) == <<v>>

BS == <<"B", "S">>
IS == <<"I", "S">>
CIS == <<"C", "I", "S">>
SCE == <<"S", "C", "E">>
CF == <<"C", "F">>

FS_DIV_LOCK == <<"C", "F", "S">>
SJ_DIV_ALLOWLIST_DEFAULT == {BS, IS, CIS, SCE, CF}
REQUIRED_SJ_DIV == <<BS, IS, CIS, SCE, CF>>
ANNUAL_REPRT_CODE_LOCK == <<"1", "1", "0", "1", "1">>

----------------------------------------------------------------------------
(* Text: str.upper, str.strip, str.split(","), str.isdigit, sorted         *)

LowerChars == <<"a", "b", "c", "d", "e", "f", "g", "h", "i", "j", "k", "l", "m",
                "n", "o", "p", "q", "r", "s", "t", "u", "v", "w", "x", "y", "z">>
UpperChars == <<"A", "B", "C", "D", "E", "F", "G", "H", "I", "J", "K", "L", "M",
                "N", "O", "P", "Q", "R", "S", "T", "U", "V", "W", "X", "Y", "Z">>
DigitChars == <<"0", "1", "2", "3", "4", "5", "6", "7", "8", "9">>
SpaceChars == {" ", "\t", "\n"}

\* the characters in code-point order
CodePoints == <<"\t", "\n", " ", ",">> \o DigitChars \o UpperChars \o LowerChars

Ord(c) == CHOOSE i \in 1..Len(CodePoints) : CodePoints[i] = c

UpperChar(c) ==
    IF \E i \in 1..26 : LowerChars[i] = c
    THEN UpperChars[CHOOSE i \in 1..26 : LowerChars[i] = c]
    ELSE c

Upper(s) == [i \in 1..Len(s) |-> UpperChar(s[i])]

RECURSIVE LStrip(_)
LStrip(s) == IF s # << >> /\ Head(s) \in SpaceChars THEN LStrip(Tail(s)) ELSE s

RECURSIVE RStrip(_)
RStrip(s) ==
    IF s # << >> /\ s[Len(s)] \in SpaceChars
    THEN RStrip(SubSeq(s, 1, Len(s) - 1))
    ELSE s

Strip(s) == RStrip(LStrip(s))

IsDigit(s) == s # << >> /\ \A i \in 1..Len(s) : \E d \in 1..10 : DigitChars[d] = s[i]

\* s.split(","): the pieces between the commas, empty pieces included
RECURSIVE SplitFrom(_, _)
SplitFrom(s, piece) ==
    IF s = << >> THEN <<piece>>
    ELSE IF Head(s) = "," THEN <<piece>> \o SplitFrom(Tail(s), << >>)
    ELSE SplitFrom(Tail(s), Append(piece, Head(s)))

Split(s) == SplitFrom(s, << >>)

\* s < t in Python's string order
RECURSIVE StrLess(_, _)
StrLess(s, t) ==
    IF t = << >> THEN FALSE
    ELSE IF s = << >> THEN TRUE
    ELSE IF Head(s) = Head(t) THEN StrLess(Tail(s), Tail(t))
    ELSE Ord(Head(s)) < Ord(Head(t))

\* sorted(list(S)) for a set S of strings
RECURSIVE SortedList(_)
SortedList(S) ==
    IF S = {} THEN << >>
    ELSE LET m == CHOOSE x \in S : \A y \in S \ {x} : StrLess(x, y)
         IN  <<m>> \o SortedList(S \ {m})

ToSet(seq) == {seq[i] : i \in 1..Len(seq)}

Min(a, b) == IF a < b THEN a ELSE b

----------------------------------------------------------------------------
(* The statement-type tiers                                                *)

\* _required_sj_set
RequiredSjSet == REQUIRED_SJ_DIV

\* [x.strip().upper() for x in pieces if x.strip()]
RECURSIVE CleanPieces(_)
CleanPieces(pieces) ==
    IF pieces = << >> THEN << >>
    ELSE IF Strip(Head(pieces)) # << >>
         THEN <<Upper(Strip(Head(pieces)))>> \o CleanPieces(Tail(pieces))
         ELSE CleanPieces(Tail(pieces))

\* _parse_sj_div_requested; sj_div and sj_div_in are Optional strings
ParseSjDivRequested(sj_div, sj_div_in) ==
    IF sj_div # None /\ sj_div[1] # << >>
    THEN <<Upper(Strip(sj_div[1]))>>
    ELSE IF sj_div_in # None /\ sj_div_in[1] # << >>
    THEN LET parsed == CleanPieces(Split(sj_div_in[1]))
         IN  IF parsed # << >> THEN parsed ELSE RequiredSjSet
    ELSE RequiredSjSet

\* _effective_sj_div without the fall back to the five required types
EffectiveSjDiv_NoFallback(requested) ==
    SortedList({Upper(requested[i]) : i \in 1..Len(requested)}
               \cap SJ_DIV_ALLOWLIST_DEFAULT)

\* _effective_sj_div
EffectiveSjDiv(requested) ==
    LET allow == SJ_DIV_ALLOWLIST_DEFAULT
        eff == SortedList({Upper(requested[i]) : i \in 1..Len(requested)} \cap allow)
    IN  IF eff # << >> THEN eff ELSE RequiredSjSet

\* str(r.get("sj_div") or "").upper() of a row
RowTag(r) == IF r.sj_div = None THEN << >> ELSE Upper(r.sj_div[1])

\* _missing_required_from_rows
MissingRequiredFromRows(rows) ==
    LET present == {RowTag(rows[i]) : i \in 1..Len(rows)}
        present_required == present \cap ToSet(REQUIRED_SJ_DIV)
    IN  SortedList(ToSet(REQUIRED_SJ_DIV) \ present_required)

\* a filter that keeps every row
FilterRows_KeepAll(rows, allowlist) == rows

\* the rows whose tag is in the allowlist, in their order
RECURSIVE FilterRows(_, _)
FilterRows(rows, allowlist) ==
    IF rows = << >> THEN << >>
    ELSE IF RowTag(Head(rows)) \in allowlist
         THEN <<Head(rows)>> \o FilterRows(Tail(rows), allowlist)
         ELSE FilterRows(Tail(rows), allowlist)

\* a slice that starts one row late
Slice_SkipFirst(seq, cursor, end) == SubSeq(seq, cursor + 2, Min(end, Len(seq)))

\* filtered[cursor:end] for 0 <= cursor
Slice(seq, cursor, end) == SubSeq(seq, cursor + 1, Min(end, Len(seq)))

\* a next_cursor that is also given when the page ends at the last row
NextCursor_AtEnd(end, total_rows) == IF end <= total_rows THEN Some(end) ELSE None

\* next_cursor = end if end < total_rows else None
NextCursor(end, total_rows) == IF end < total_rows THEN Some(end) ELSE None

\* a page whose missing list is computed from the filtered rows
PageOf_MissingOfFiltered(rows, cursor, limit, sj_div, sj_div_in) ==
    LET requested == ParseSjDivRequested(sj_div, sj_div_in)
        effective == EffectiveSjDiv(requested)
        allowlist == {Upper(effective[i]) : i \in 1..Len(effective)}
        filtered == FilterRows(rows, allowlist)
        missing == MissingRequiredFromRows(filtered)
        total_rows == Len(filtered)
        end == Min(cursor + limit, total_rows)
        page == Slice(filtered, cursor, end)
        next_cursor == NextCursor(end, total_rows)
    IN  [requested |-> requested, effective |-> effective, missing |-> missing,
         cursor |-> cursor, limit |-> limit, next_cursor |-> next_cursor,
         total_rows |-> total_rows, list |-> page]

\* _fnltt_all_page from "rows = cached.get(...)" on: the tiers and the page
PageOf(rows, cursor, limit, sj_div, sj_div_in) ==
    LET requested == ParseSjDivRequested(sj_div, sj_div_in)
        effective == EffectiveSjDiv(requested)
        missing == MissingRequiredFromRows(rows)
        allowlist == {Upper(effective[i]) : i \in 1..Len(effective)}
        filtered == FilterRows(rows, allowlist)
        total_rows == Len(filtered)
        end == Min(cursor + limit, total_rows)
        page == Slice(filtered, cursor, end)
        next_cursor == NextCursor(end, total_rows)
    IN  [requested |-> requested, effective |-> effective, missing |-> missing,
         cursor |-> cursor, limit |-> limit, next_cursor |-> next_cursor,
         total_rows |-> total_rows, list |-> page]

----------------------------------------------------------------------------
(* Bounds and the inputs the environment chooses from                      *)

MaxTicks == 2        \* the clock stops after this many ticks
MaxNodes == 1        \* <list> nodes in a manifest
MaxRows == 1         \* rows in an upstream statement response
MaxRowsP == 3        \* rows given to the paginator on its own
MaxCursorP == 4      \* largest cursor given to the paginator on its own
MaxLimitP == 2       \* largest limit given to the paginator on its own

\* one tick of the clock: half the freshness interval of the snapshot, twice
\* that of the statement cache
TickSeconds == CORP_MAP_TTL_SEC \div 2

Handlers == {1, 2}

T1 == <<"0", "0", "5", "9", "3", "0">>
T2 == <<"0", "0", "0", "6", "6", "0">>
C1 == <<"0", "0", "1", "2", "6", "3", "8", "0">>
Y2023 == <<"2", "0", "2", "3">>

RECURSIVE SeqsUpTo(_, _)
SeqsUpTo(S, n) ==
    IF n = 0 THEN {<< >>}
    ELSE LET shorter == SeqsUpTo(S, n - 1)
         IN  shorter \cup {Append(q, x) : q \in shorter, x \in S}

\* <list> nodes of corpCode.xml, as the text of their children
NodePool ==
    { [corp_code |-> C1, corp_name |-> <<"S">>, stock_code |-> T1,
       modify_date |-> <<"1">>],
      [corp_code |-> <<" ">> \o C1, corp_name |-> <<"S", " ">>,
       stock_code |-> T1 \o <<" ">>, modify_date |-> <<"1", "\n">>],
      [corp_code |-> C1, corp_name |-> <<"U">>, stock_code |-> <<" ">>,
       modify_date |-> <<"1">>] }

\* what the download of corpCode.xml can give: a transport failure, a zip
\* without an XML member, a zip with an XML member
ManifestResponses ==
    { [kind |-> "error", xml |-> None], [kind |-> "zip", xml |-> None] }
    \cup { [kind |-> "zip", xml |-> Some(nodes)] : nodes \in SeqsUpTo(NodePool, MaxNodes) }

RowPool == { [sj_div |-> Some(BS), account_id |-> <<"1">>] }

MsgOk == <<"o", "k">>
MsgNoData == <<"n", "o", "n", "e">>
MsgLimit == <<"l", "i", "m", "i", "t">>
St000 == <<"0", "0", "0">>
St013 == <<"0", "1", "3">>
St020 == <<"0", "2", "0">>

\* what fnlttSinglAcntAll.json can give: a transport failure or a JSON body
FsResponses ==
    { [kind |-> "error", status |-> << >>, message |-> << >>, list |-> None] }
    \cup { [kind |-> "json", status |-> St000, message |-> MsgOk, list |-> Some(q)] :
             q \in SeqsUpTo(RowPool, MaxRows) }
    \cup { [kind |-> "json", status |-> St013, message |-> MsgNoData, list |-> l] :
             l \in {None} \cup {Some(<<r>>) : r \in RowPool} }
    \cup { [kind |-> "json", status |-> St020, message |-> MsgLimit, list |-> l] :
             l \in {None} \cup {Some(<<r>>) : r \in RowPool} }

\* what company.json and list.json can give
PlainResponses ==
    { [kind |-> "error", status |-> << >>, message |-> << >>],
      [kind |-> "json", status |-> St000, message |-> MsgOk],
      [kind |-> "json", status |-> St013, message |-> MsgNoData],
      [kind |-> "json", status |-> St020, message |-> MsgLimit] }

----------------------------------------------------------------------------
(* Requests and their validation (dart, before the dispatch)               *)

Truthy(opt) == opt # None /\ opt[1] # << >>

OpResolve == <<"r", "e", "s", "o", "l", "v", "e">>
OpList == <<"l", "i", "s", "t">>
OpFnlttAll == <<"f", "n", "l", "t", "t", "_", "a", "l", "l">>
CFS == <<"C", "F", "S">>
OFS == <<"O", "F", "S">>

\* the query parameters of GET /v1/dart with their defaults
DefaultRequest ==
    [op |-> OpFnlttAll, stock_code |-> T1, lookback_years |-> 6,
     bsns_year |-> Some(Y2023), reprt_code |-> None, fs_div |-> CFS,
     sj_div |-> None, sj_div_in |-> None, cursor |-> 0, limit |-> MIN_LIMIT]

Filters ==
    { [sj_div |-> None, sj_div_in |-> None],
      [sj_div |-> None, sj_div_in |-> Some(<<" ", "i", "s", ",", "x", "x">>)] }

\* requests that pass the validation
GoodRequests ==
    { [DefaultRequest EXCEPT !.op = o, !.stock_code = t] :
        o \in {OpResolve, OpList, OpFnlttAll}, t \in {T1, T2} }
    \cup { [DefaultRequest EXCEPT !.sj_div = f.sj_div,
                                  !.sj_div_in = f.sj_div_in] : f \in Filters }
    \cup { [DefaultRequest EXCEPT !.op = OpList, !.fs_div = OFS],
           [DefaultRequest EXCEPT !.reprt_code = Some(<<" ">> \o ANNUAL_REPRT_CODE_LOCK),
                                  !.fs_div = <<"c", "f", "s", " ">>] }

\* requests the validation rejects, one for each rule
BadRequests ==
    { [DefaultRequest EXCEPT !.op = <<"g", "e", "t">>],
      [DefaultRequest EXCEPT !.stock_code = <<"5", "9", "3", "0">>],
      [DefaultRequest EXCEPT !.stock_code = <<"0", "0", "5", "9", "3", "A">>],
      [DefaultRequest EXCEPT !.fs_div = <<"X", "F", "S">>],
      [DefaultRequest EXCEPT !.cursor = -1],
      [DefaultRequest EXCEPT !.limit = MIN_LIMIT - 1],
      [DefaultRequest EXCEPT !.limit = MAX_LIMIT + 1],
      [DefaultRequest EXCEPT !.op = OpResolve, !.sj_div = Some(BS)],
      [DefaultRequest EXCEPT !.op = OpList, !.sj_div_in = Some(BS)],
      [DefaultRequest EXCEPT !.bsns_year = None],
      [DefaultRequest EXCEPT !.bsns_year = Some(<<"2", "3">>)],
      [DefaultRequest EXCEPT !.reprt_code = Some(<<"1", "1", "0", "1", "2">>)],
      [DefaultRequest EXCEPT !.sj_div = Some(BS), !.sj_div_in = Some(IS)],
      [DefaultRequest EXCEPT !.sj_div = Some(<<"X", "X">>)],
      [DefaultRequest EXCEPT !.fs_div = OFS] }

Requests == GoodRequests \cup BadRequests

\* fs_div = (fs_div or "").strip().upper()
NormFsDiv(req) == Upper(Strip(req.fs_div))

\* the checks of dart without the lock of fs_div to CFS
Validate_NoCfsLock(req) ==
    LET fs_div == NormFsDiv(req)
    IN  IF req.op \notin {OpResolve, OpList, OpFnlttAll}
        THEN Some("op must be resolve | list | fnltt_all")
        ELSE IF ~(IsDigit(req.stock_code) /\ Len(req.stock_code) = 6)
        THEN Some("stock_code must be 6 digits")
        ELSE IF fs_div # << >> /\ fs_div \notin {CFS, OFS}
        THEN Some("fs_div must be CFS or OFS")
        ELSE IF req.cursor < 0
        THEN Some("cursor must be >= 0")
        ELSE IF req.limit < MIN_LIMIT \/ req.limit > MAX_LIMIT
        THEN Some("limit must be MIN_LIMIT..MAX_LIMIT")
        ELSE IF req.op # OpFnlttAll /\ (Truthy(req.sj_div) \/ Truthy(req.sj_div_in))
        THEN Some("sj_div/sj_div_in is only allowed when op=fnltt_all")
        ELSE IF req.op # OpFnlttAll
        THEN None
        ELSE IF ~Truthy(req.bsns_year)
                \/ ~(IsDigit(req.bsns_year[1]) /\ Len(req.bsns_year[1]) = 4)
        THEN Some("bsns_year(YYYY) required for op=fnltt_all")
        ELSE IF Strip(IF req.reprt_code = None THEN ANNUAL_REPRT_CODE_LOCK
                      ELSE req.reprt_code[1]) # ANNUAL_REPRT_CODE_LOCK
        THEN Some("reprt_code is locked to 11011 (annual business report)")
        ELSE IF Truthy(req.sj_div) /\ Truthy(req.sj_div_in)
        THEN Some("Provide either sj_div or sj_div_in, not both")
        ELSE IF Truthy(req.sj_div)
                /\ Upper(Strip(req.sj_div[1])) \notin SJ_DIV_ALLOWLIST_DEFAULT
        THEN Some("sj_div must be one of BS/IS/CIS/SCE/CF")
        ELSE None

\* the checks of dart in their order; the detail of the 400, or None
Validate(req) ==
    LET fs_div == NormFsDiv(req)
    IN  IF req.op \notin {OpResolve, OpList, OpFnlttAll}
        THEN Some("op must be resolve | list | fnltt_all")
        ELSE IF ~(IsDigit(req.stock_code) /\ Len(req.stock_code) = 6)
        THEN Some("stock_code must be 6 digits")
        ELSE IF fs_div # << >> /\ fs_div \notin {CFS, OFS}
        THEN Some("fs_div must be CFS or OFS")
        ELSE IF req.cursor < 0
        THEN Some("cursor must be >= 0")
        ELSE IF req.limit < MIN_LIMIT \/ req.limit > MAX_LIMIT
        THEN Some("limit must be MIN_LIMIT..MAX_LIMIT")
        ELSE IF req.op # OpFnlttAll /\ (Truthy(req.sj_div) \/ Truthy(req.sj_div_in))
        THEN Some("sj_div/sj_div_in is only allowed when op=fnltt_all")
        ELSE IF req.op # OpFnlttAll
        THEN None
        ELSE IF ~Truthy(req.bsns_year)
                \/ ~(IsDigit(req.bsns_year[1]) /\ Len(req.bsns_year[1]) = 4)
        THEN Some("bsns_year(YYYY) required for op=fnltt_all")
        ELSE IF Strip(IF req.reprt_code = None THEN ANNUAL_REPRT_CODE_LOCK
                      ELSE req.reprt_code[1]) # ANNUAL_REPRT_CODE_LOCK
        THEN Some("reprt_code is locked to 11011 (annual business report)")
        ELSE IF Truthy(req.sj_div) /\ Truthy(req.sj_div_in)
        THEN Some("Provide either sj_div or sj_div_in, not both")
        ELSE IF Truthy(req.sj_div)
                /\ Upper(Strip(req.sj_div[1])) \notin SJ_DIV_ALLOWLIST_DEFAULT
        THEN Some("sj_div must be one of BS/IS/CIS/SCE/CF")
        ELSE IF fs_div # << >> /\ fs_div # CFS
        THEN Some("fs_div is locked to CFS (consolidated) in this proxy")
        ELSE None

\* the arguments dart passes on to the operation
CallArgs(req) ==
    [op |-> req.op, stock_code |-> req.stock_code,
     lookback_years |-> req.lookback_years,
     bsns_year |-> IF req.op = OpFnlttAll THEN req.bsns_year[1] ELSE << >>,
     cursor |-> req.cursor, limit |-> req.limit,
     sj_div |-> IF req.op = OpFnlttAll /\ Truthy(req.sj_div)
                THEN Some(Upper(Strip(req.sj_div[1]))) ELSE req.sj_div,
     sj_div_in |-> req.sj_div_in]

----------------------------------------------------------------------------
(* Corporate identifier resolver                                           *)

\* the test of _refresh_corp_map_if_needed that skips the download
CorpMapFresh(now_, ts, map) ==
    ts # None /\ (now_ - ts[1]) < CORP_MAP_TTL_SEC /\ map # << >>

\* the loop over root.findall(".//list"): a later node with the same
\* stock_code overwrites an earlier one
RECURSIVE BuildCorpMap(_, _)
BuildCorpMap(nodes, m) ==
    IF nodes = << >> THEN m
    ELSE LET node == Head(nodes)
             corp_code == Strip(node.corp_code)
             corp_name == Strip(node.corp_name)
             stock_code == Strip(node.stock_code)
             modify_date == Strip(node.modify_date)
             rec == [corp_code |-> corp_code, corp_name |-> corp_name,
                     stock_code |-> stock_code, modify_date |-> modify_date]
         IN  IF Len(stock_code) = 6 /\ Len(corp_code) = 8
             THEN BuildCorpMap(Tail(nodes), (stock_code :> rec) @@ m)
             ELSE BuildCorpMap(Tail(nodes), m)

\* a refresh that assigns the globals before it tests the mapping
RefreshCorpMap_InstallFirst(resp, now_, map, ts) ==
    IF resp.kind = "error"
    THEN [err |-> Some("httpx.HTTPError"), CORP_MAP |-> map, CORP_MAP_TS |-> ts]
    ELSE IF resp.xml = None
    THEN [err |-> Some("RuntimeError: corpCode zip has no XML file"),
          CORP_MAP |-> map, CORP_MAP_TS |-> ts]
    ELSE LET m == BuildCorpMap(resp.xml[1], << >>)
         IN  [err |-> IF m = << >>
                      THEN Some("RuntimeError: corpCode parse produced empty mapping")
                      ELSE None,
              CORP_MAP |-> m, CORP_MAP_TS |-> Some(now_)]

\* a refresh that adds the new records to the installed mapping
RefreshCorpMap_Merge(resp, now_, map, ts) ==
    IF resp.kind = "error"
    THEN [err |-> Some("httpx.HTTPError"), CORP_MAP |-> map, CORP_MAP_TS |-> ts]
    ELSE IF resp.xml = None
    THEN [err |-> Some("RuntimeError: corpCode zip has no XML file"),
          CORP_MAP |-> map, CORP_MAP_TS |-> ts]
    ELSE LET m == BuildCorpMap(resp.xml[1], << >>)
         IN  IF m = << >>
             THEN [err |-> Some("RuntimeError: corpCode parse produced empty mapping"),
                   CORP_MAP |-> map, CORP_MAP_TS |-> ts]
             ELSE [err |-> None, CORP_MAP |-> m @@ map, CORP_MAP_TS |-> Some(now_)]

\* _refresh_corp_map_if_needed after the download returned resp: the
\* exception raised, if any, and the globals afterwards
RefreshCorpMap(resp, now_, map, ts) ==
    IF resp.kind = "error"
    THEN [err |-> Some("httpx.HTTPError"), CORP_MAP |-> map, CORP_MAP_TS |-> ts]
    ELSE IF resp.xml = None
    THEN [err |-> Some("RuntimeError: corpCode zip has no XML file"),
          CORP_MAP |-> map, CORP_MAP_TS |-> ts]
    ELSE LET m == BuildCorpMap(resp.xml[1], << >>)
         IN  IF m = << >>
             THEN [err |-> Some("RuntimeError: corpCode parse produced empty mapping"),
                   CORP_MAP |-> map, CORP_MAP_TS |-> ts]
             ELSE [err |-> None, CORP_MAP |-> m, CORP_MAP_TS |-> Some(now_)]

\* CORP_MAP.get(stock_code)
CorpLookup(map, stock_code) ==
    IF stock_code \in DOMAIN map THEN Some(map[stock_code]) ELSE None

----------------------------------------------------------------------------
(* Statement cache                                                         *)

Colon == <<":">>

\* _fs_key
FsKey(corp_code, bsns_year, reprt_code, fs_div) ==
    corp_code \o Colon \o bsns_year \o Colon \o reprt_code \o Colon \o fs_div

DictGet(d, k) == IF k \in DOMAIN d THEN Some(d[k]) ELSE None

\* a test that always calls upstream
FsMustFetch_Always(cached, ts, now_) == TRUE

\* the test of _fnltt_all_page that decides to call upstream
FsMustFetch(cached, ts, now_) ==
    cached = None \/ ts = None \/ (now_ - ts[1]) > FS_CACHE_TTL_SEC

\* a guard that lets every status pass
GuardDartStatus_AllowAll(status, allow_013_empty) == TRUE

\* _guard_dart_status: TRUE when it returns, FALSE when it raises the 502
GuardDartStatus(status, allow_013_empty) ==
    \/ status = St000
    \/ allow_013_empty /\ status = St013

\* a normalisation that keeps the list of a 013 response
NormalizeFetched_Keep(fetched) == fetched

\* if status == "013": fetched["list"] = []
NormalizeFetched(fetched) ==
    IF fetched.status = St013 THEN [fetched EXCEPT !.list = Some(<< >>)] ELSE fetched

\* a fill that stores the fetched JSON before it guards the status
FillFsCache_StoreFirst(resp, key, now_, cache, cache_ts) ==
    IF resp.kind = "error"
    THEN [code |-> 500, detail |-> [error |-> "httpx.HTTPError"],
          FS_CACHE |-> cache, FS_CACHE_TS |-> cache_ts, cached |-> None]
    ELSE LET fetched == NormalizeFetched([status |-> resp.status,
                                          message |-> resp.message,
                                          list |-> resp.list])
             ok == GuardDartStatus(resp.status, TRUE)
         IN  [code |-> IF ok THEN 200 ELSE 502,
              detail |-> IF ok THEN [error |-> ""]
                         ELSE [status |-> resp.status, message |-> resp.message],
              FS_CACHE |-> (key :> fetched) @@ cache,
              FS_CACHE_TS |-> (key :> now_) @@ cache_ts,
              cached |-> Some(fetched)]

\* a fill that keeps the entry another fill installed in the meantime
FillFsCache_KeepFirst(resp, key, now_, cache, cache_ts) ==
    IF resp.kind = "error"
    THEN [code |-> 500, detail |-> [error |-> "httpx.HTTPError"],
          FS_CACHE |-> cache, FS_CACHE_TS |-> cache_ts, cached |-> None]
    ELSE IF ~GuardDartStatus(resp.status, TRUE)
    THEN [code |-> 502, detail |-> [status |-> resp.status, message |-> resp.message],
          FS_CACHE |-> cache, FS_CACHE_TS |-> cache_ts, cached |-> None]
    ELSE LET fetched == NormalizeFetched([status |-> resp.status,
                                          message |-> resp.message,
                                          list |-> resp.list])
         IN  [code |-> 200, detail |-> [error |-> ""],
              FS_CACHE |-> cache @@ (key :> fetched),
              FS_CACHE_TS |-> cache_ts @@ (key :> now_),
              cached |-> Some(fetched)]

\* a fill that stores the fetched JSON and leaves the timestamps alone
FillFsCache_PayloadOnly(resp, key, now_, cache, cache_ts) ==
    IF resp.kind = "error"
    THEN [code |-> 500, detail |-> [error |-> "httpx.HTTPError"],
          FS_CACHE |-> cache, FS_CACHE_TS |-> cache_ts, cached |-> None]
    ELSE IF ~GuardDartStatus(resp.status, TRUE)
    THEN [code |-> 502, detail |-> [status |-> resp.status, message |-> resp.message],
          FS_CACHE |-> cache, FS_CACHE_TS |-> cache_ts, cached |-> None]
    ELSE LET fetched == NormalizeFetched([status |-> resp.status,
                                          message |-> resp.message,
                                          list |-> resp.list])
         IN  [code |-> 200, detail |-> [error |-> ""],
              FS_CACHE |-> (key :> fetched) @@ cache,
              FS_CACHE_TS |-> cache_ts,
              cached |-> Some(fetched)]

\* _fnltt_all_page after the fetch returned resp: the failure, if any, the
\* caches afterwards and the JSON the page is cut from
FillFsCache(resp, key, now_, cache, cache_ts) ==
    IF resp.kind = "error"
    THEN [code |-> 500, detail |-> [error |-> "httpx.HTTPError"],
          FS_CACHE |-> cache, FS_CACHE_TS |-> cache_ts, cached |-> None]
    ELSE IF ~GuardDartStatus(resp.status, TRUE)
    THEN [code |-> 502, detail |-> [status |-> resp.status, message |-> resp.message],
          FS_CACHE |-> cache, FS_CACHE_TS |-> cache_ts, cached |-> None]
    ELSE LET fetched == NormalizeFetched([status |-> resp.status,
                                          message |-> resp.message,
                                          list |-> resp.list])
         IN  [code |-> 200, detail |-> [error |-> ""],
              FS_CACHE |-> (key :> fetched) @@ cache,
              FS_CACHE_TS |-> (key :> now_) @@ cache_ts,
              cached |-> Some(fetched)]

\* rows = cached.get("list") or []
RowsOf(cached) == IF cached.list = None THEN << >> ELSE cached.list[1]

\* the object _fnltt_all_page returns
FnlttBody(a, inf, cached) ==
    LET pg == PageOf(RowsOf(cached), a.cursor, a.limit, a.sj_div, a.sj_div_in)
    IN  [op |-> OpFnlttAll, status |-> cached.status, message |-> cached.message,
         sj_div_in_requested |-> pg.requested,
         sj_div_in_effective |-> pg.effective,
         sj_div_missing_required_in_data |-> pg.missing,
         stock_code |-> a.stock_code, corp_code |-> inf.corp_code,
         bsns_year |-> a.bsns_year, reprt_code |-> ANNUAL_REPRT_CODE_LOCK,
         fs_div |-> FS_DIV_LOCK, cursor |-> a.cursor, limit |-> a.limit,
         next_cursor |-> pg.next_cursor, total_rows |-> pg.total_rows,
         list |-> pg.list]

HandlerKey(a, inf) ==
    FsKey(inf.corp_code, a.bsns_year, ANNUAL_REPRT_CODE_LOCK, FS_DIV_LOCK)

----------------------------------------------------------------------------
(* Handlers                                                                *)

\* what the variable out keeps of a response: the status code and the stage
\* of the handler that sent it
SentBy(code, by) == Some([code |-> code, by |-> by])

Idle == [pc |-> "idle", args |-> None, now |-> 0, info |-> None]

RejectedRequests == {req \in Requests : Validate(req) # None}

\* the arguments dart passes on for each request it accepts
AcceptedArgs == [req \in Requests \ RejectedRequests |-> CallArgs(req)]

\* the code that runs, without suspending, once the snapshot is usable:
\* the lookup of _corp_from_stock_code and the operation up to its await
AfterRefresh(a, map, cache, cache_ts, clk) ==
    LET found == CorpLookup(map, a.stock_code)
    IN  IF found = None
        THEN [next |-> Idle, sent |-> SentBy(404, "lookup")]
        ELSE IF a.op = OpResolve
        THEN [next |-> [pc |-> "company", args |-> Some(a), now |-> 0, info |-> found],
              sent |-> None]
        ELSE IF a.op = OpList
        THEN [next |-> [pc |-> "list", args |-> Some(a), now |-> 0, info |-> found],
              sent |-> None]
        ELSE LET key == HandlerKey(a, found[1])
                 cached == DictGet(cache, key)
                 ts == DictGet(cache_ts, key)
             IN  IF FsMustFetch(cached, ts, clk)
                 THEN [next |-> [pc |-> "fnltt", args |-> Some(a), now |-> clk,
                                 info |-> found],
                       sent |-> None]
                 ELSE [next |-> Idle, sent |-> SentBy(200, "cache")]

\* the body of the response AfterRefresh sends: the detail of the 404, or the
\* page cut from the cached JSON
AfterRefreshBody(a, map, cache) ==
    LET found == CorpLookup(map, a.stock_code)
    IN  IF found = None
        THEN [detail |-> "Unknown stock_code"]
        ELSE FnlttBody(a, found[1], cache[HandlerKey(a, found[1])])

\* dart up to its first await, for the request req
StartResult(req) ==
    IF req \in RejectedRequests
    THEN [next |-> Idle, sent |-> SentBy(400, "validate")]
    ELSE IF CorpMapFresh(clock, CORP_MAP_TS, CORP_MAP)
    THEN AfterRefresh(AcceptedArgs[req], CORP_MAP, FS_CACHE, FS_CACHE_TS, clock)
    ELSE [next |-> [pc |-> "corpCode", args |-> Some(AcceptedArgs[req]), now |-> clock,
                    info |-> None],
          sent |-> None]

\* the body of the response StartResult sends
StartBody(req) ==
    IF req \in RejectedRequests
    THEN [detail |-> Validate(req)[1]]
    ELSE AfterRefreshBody(AcceptedArgs[req], CORP_MAP, FS_CACHE)

\* the code from the return of the download of corpCode.xml to the next await
CorpResult(h, resp) ==
    LET r == RefreshCorpMap(resp, now[h], CORP_MAP, CORP_MAP_TS)
        rest == IF r.err # None
                THEN [next |-> Idle, sent |-> SentBy(500, "corpCode")]
                ELSE AfterRefresh(args[h][1], r.CORP_MAP, FS_CACHE, FS_CACHE_TS, clock)
    IN  [CORP_MAP |-> r.CORP_MAP, CORP_MAP_TS |-> r.CORP_MAP_TS,
         next |-> rest.next, sent |-> rest.sent]

\* the body of the response CorpResult sends
CorpBody(h, resp) ==
    LET r == RefreshCorpMap(resp, now[h], CORP_MAP, CORP_MAP_TS)
    IN  IF r.err # None
        THEN [error |-> r.err[1]]
        ELSE AfterRefreshBody(args[h][1], r.CORP_MAP, FS_CACHE)

\* FsResult with the entry stamped by the clock at the time of the install
FsResult_StampAtInstall(h, resp) ==
    LET r == FillFsCache(resp, HandlerKey(args[h][1], info[h][1]), clock,
                         FS_CACHE, FS_CACHE_TS)
    IN  [FS_CACHE |-> r.FS_CACHE, FS_CACHE_TS |-> r.FS_CACHE_TS, next |-> Idle,
         sent |-> SentBy(r.code, "fnltt")]

\* the code from the return of fnlttSinglAcntAll.json to the response
FsResult(h, resp) ==
    LET r == FillFsCache(resp, HandlerKey(args[h][1], info[h][1]), now[h],
                         FS_CACHE, FS_CACHE_TS)
    IN  [FS_CACHE |-> r.FS_CACHE, FS_CACHE_TS |-> r.FS_CACHE_TS, next |-> Idle,
         sent |-> SentBy(r.code, "fnltt")]

\* the body of the response FsResult sends
FsBody(h, resp) ==
    LET r == FillFsCache(resp, HandlerKey(args[h][1], info[h][1]), now[h],
                         FS_CACHE, FS_CACHE_TS)
    IN  IF r.code = 200
        THEN FnlttBody(args[h][1], info[h][1], r.cached[1])
        ELSE r.detail

\* max(3, min(10, int(lookback_years)))
ClampLookback(n) == IF n < 3 THEN 3 ELSE IF n > 10 THEN 10 ELSE n

\* the code from the return of company.json or list.json to the response
PlainResult(h, resp) ==
    [next |-> Idle,
     sent |-> IF resp.kind = "error" THEN SentBy(500, pc[h])
              ELSE IF ~GuardDartStatus(resp.status, FALSE) THEN SentBy(502, pc[h])
              ELSE SentBy(200, pc[h])]

\* the body of the response PlainResult sends
PlainBody(h, resp) ==
    LET a == args[h][1]
        inf == info[h][1]
    IN  IF resp.kind = "error"
        THEN [error |-> "httpx.HTTPError"]
        ELSE IF ~GuardDartStatus(resp.status, FALSE)
        THEN [status |-> resp.status, message |-> resp.message]
        ELSE [op |-> a.op, status |-> resp.status, message |-> resp.message,
              stock_code |-> a.stock_code, corp_code |-> inf.corp_code,
              corp_name |-> inf.corp_name, modify_date |-> inf.modify_date,
              lookback_years |-> ClampLookback(a.lookback_years)]

SetHandler(h, r) ==
    /\ pc' = [pc EXCEPT ![h] = r.next.pc]
    /\ args' = [args EXCEPT ![h] = r.next.args]
    /\ now' = [now EXCEPT ![h] = r.next.now]
    /\ info' = [info EXCEPT ![h] = r.next.info]
    /\ out' = r.sent

\* a request arrives and gets a handler; handlers are interchangeable, so
\* it is the first idle one
Start(h, req) ==
    /\ pc[h] = "idle"
    /\ \A g \in Handlers : g < h => pc[g] # "idle"
    /\ LET r == StartResult(req) IN SetHandler(h, r)
    /\ UNCHANGED <<clock, CORP_MAP, CORP_MAP_TS, FS_CACHE, FS_CACHE_TS>>

\* the download of corpCode.xml returns
CorpReturn(h, resp) ==
    /\ pc[h] = "corpCode"
    /\ LET r == CorpResult(h, resp)
       IN  /\ CORP_MAP' = r.CORP_MAP
           /\ CORP_MAP_TS' = r.CORP_MAP_TS
           /\ SetHandler(h, r)
    /\ UNCHANGED <<clock, FS_CACHE, FS_CACHE_TS>>

\* the call of fnlttSinglAcntAll.json returns
FsReturn(h, resp) ==
    /\ pc[h] = "fnltt"
    /\ LET r == FsResult(h, resp)
       IN  /\ FS_CACHE' = r.FS_CACHE
           /\ FS_CACHE_TS' = r.FS_CACHE_TS
           /\ SetHandler(h, r)
    /\ UNCHANGED <<clock, CORP_MAP, CORP_MAP_TS>>

\* the call of company.json (resolve) or list.json (list) returns
PlainReturn(h, resp) ==
    /\ pc[h] \in {"company", "list"}
    /\ LET r == PlainResult(h, resp) IN SetHandler(h, r)
    /\ UNCHANGED <<clock, CORP_MAP, CORP_MAP_TS, FS_CACHE, FS_CACHE_TS>>

\* time passes
Tick ==
    /\ clock + TickSeconds <= MaxTicks * TickSeconds
    /\ clock' = clock + TickSeconds
    /\ out' = None
    /\ UNCHANGED <<CORP_MAP, CORP_MAP_TS, FS_CACHE, FS_CACHE_TS, pc, args, now, info>>

InitSys ==
    /\ clock = 0
    /\ CORP_MAP = << >>
    /\ CORP_MAP_TS = None
    /\ FS_CACHE = << >>
    /\ FS_CACHE_TS = << >>
    /\ pc = [h \in Handlers |-> "idle"]
    /\ args = [h \in Handlers |-> None]
    /\ now = [h \in Handlers |-> 0]
    /\ info = [h \in Handlers |-> None]
    /\ out = None

InitHist ==
    /\ lastHit = None
    /\ fillsSince = FALSE

InitPageIdle ==
    /\ pRows = << >>
    /\ pSjDiv = None
    /\ pSjDivIn = None
    /\ pCursor = 0
    /\ pLimit = 1
    /\ pStart = 0
    /\ pOut = None
    /\ pAcc = << >>

Init == InitSys /\ InitHist /\ InitPageIdle

DoStart ==
    /\ \E h \in Handlers, req \in Requests : Start(h, req)
    /\ UNCHANGED <<histVars, pageVars>>

DoCorpReturn ==
    /\ \E h \in Handlers, resp \in ManifestResponses : CorpReturn(h, resp)
    /\ UNCHANGED <<histVars, pageVars>>

DoFsReturn ==
    /\ \E h \in Handlers, resp \in FsResponses : FsReturn(h, resp)
    /\ UNCHANGED <<histVars, pageVars>>

DoPlainReturn ==
    /\ \E h \in Handlers, resp \in PlainResponses : PlainReturn(h, resp)
    /\ UNCHANGED <<histVars, pageVars>>

DoTick == Tick /\ UNCHANGED <<histVars, pageVars>>

Next == DoStart \/ DoCorpReturn \/ DoFsReturn \/ DoPlainReturn \/ DoTick

Spec == Init /\ [][Next]_vars

\* the proxy under fnltt_all requests only
FsRequests ==
    {req \in GoodRequests : req.op = OpFnlttAll}
    \cup {req \in BadRequests : req.bsns_year = None}

DoStartFs ==
    /\ \E h \in Handlers, req \in FsRequests : Start(h, req)
    /\ UNCHANGED <<histVars, pageVars>>

NextFs == DoStartFs \/ DoCorpReturn \/ DoFsReturn \/ DoTick

SpecFs == Init /\ [][NextFs]_vars

\* the proxy under resolve and list requests, with manifests that list one
\* ticker, the other ticker or both
CorpRequests == {req \in GoodRequests : req.op # OpFnlttAll}

CorpCode2 == <<"0", "0", "1", "6", "4", "7", "7", "9">>

NodePoolCorp ==
    NodePool
    \cup { [corp_code |-> CorpCode2, corp_name |-> <<"H">>, stock_code |-> T2,
            modify_date |-> <<"2">>] }

ManifestResponsesCorp ==
    { [kind |-> "error", xml |-> None], [kind |-> "zip", xml |-> None] }
    \cup { [kind |-> "zip", xml |-> Some(nodes)] :
             nodes \in SeqsUpTo(NodePoolCorp, MaxNodes) }

DoStartCorp ==
    /\ \E h \in Handlers, req \in CorpRequests : Start(h, req)
    /\ UNCHANGED <<histVars, pageVars>>

DoCorpReturnCorp ==
    /\ \E h \in Handlers, resp \in ManifestResponsesCorp : CorpReturn(h, resp)
    /\ UNCHANGED <<histVars, pageVars>>

NextCorp == DoStartCorp \/ DoCorpReturnCorp \/ DoPlainReturn \/ DoTick

SpecCorp == Init /\ [][NextCorp]_vars

\* the proxy under the requests the validation rejects and one it accepts
ValidationRequests == BadRequests \cup {DefaultRequest}

DoStartValidation ==
    /\ \E h \in Handlers, req \in ValidationRequests : Start(h, req)
    /\ UNCHANGED <<histVars, pageVars>>

NextValidation == DoStartValidation \/ DoCorpReturn \/ DoFsReturn \/ DoTick

SpecValidation == Init /\ [][NextValidation]_vars

----------------------------------------------------------------------------
(* The paginator on its own: _fnltt_all_page from the cached rows on, for  *)
(* rows, filters, cursors and limits of any value, and a client that       *)
(* follows next_cursor                                                     *)

RowPoolP ==
    { [sj_div |-> Some(BS), account_id |-> <<"1">>],
      [sj_div |-> Some(<<"i", "s">>), account_id |-> <<"2">>],
      [sj_div |-> Some(<<"X", "X">>), account_id |-> <<"3">>],
      [sj_div |-> None, account_id |-> <<"4">>] }

FiltersP ==
    { [sj_div |-> None, sj_div_in |-> None],
      [sj_div |-> Some(<< >>), sj_div_in |-> Some(<<"b", "s", ",", " ", "i", "s">>)],
      [sj_div |-> Some(<<" ", "i", "s">>), sj_div_in |-> None],
      [sj_div |-> Some(<<"x", "x">>), sj_div_in |-> None],
      [sj_div |-> None, sj_div_in |-> Some(<<"x", "x", ",", "Y">>)],
      [sj_div |-> None, sj_div_in |-> Some(<<" ", ",", ",">>)],
      [sj_div |-> None, sj_div_in |-> Some(<<"I", "S", ",", "x", ",", "i", "s">>)] }

InitPage ==
    /\ InitSys
    /\ InitHist
    /\ pRows \in SeqsUpTo(RowPoolP, MaxRowsP)
    /\ \E f \in FiltersP : pSjDiv = f.sj_div /\ pSjDivIn = f.sj_div_in
    /\ pCursor \in 0..MaxCursorP
    /\ pLimit \in 1..MaxLimitP
    /\ pStart = pCursor
    /\ pOut = None
    /\ pAcc = << >>

\* the page for the current cursor is computed and handed to the client
PageCall ==
    /\ pOut = None
    /\ pOut' = Some(PageOf(pRows, pCursor, pLimit, pSjDiv, pSjDivIn))
    /\ pAcc' = pAcc \o pOut'[1].list
    /\ UNCHANGED <<pRows, pSjDiv, pSjDivIn, pCursor, pLimit, pStart>>
    /\ UNCHANGED <<sysVars, histVars>>

\* the client asks for the page at next_cursor
PageFollow ==
    /\ pOut # None
    /\ pOut[1].next_cursor # None
    /\ pCursor' = pOut[1].next_cursor[1]
    /\ pOut' = None
    /\ UNCHANGED <<pRows, pSjDiv, pSjDivIn, pLimit, pStart, pAcc>>
    /\ UNCHANGED <<sysVars, histVars>>

NextPage == PageCall \/ PageFollow

SpecPage == InitPage /\ [][NextPage]_vars

\* the rows of the input that carry a type of the effective set reported
FilteredP == FilterRows(pRows, ToSet(pOut[1].effective))

\* C3, first part: the page is the filtered rows cursor .. min(cursor+limit,N)-1
\* and next_cursor is min(cursor+limit,N) when that is below N, else absent
C3_PageExact ==
    (pOut # None /\ pCursor <= Len(FilteredP)) =>
        LET N == Len(FilteredP)
            page == pOut[1].list
            upper == Min(pCursor + pLimit, N)
        IN  /\ Len(page) = Min(pLimit, N - pCursor)
            /\ \A i \in 1..Len(page) : page[i] = FilteredP[pCursor + i]
            /\ pOut[1].next_cursor = IF upper < N THEN Some(upper) ELSE None

PageWalkDone == pOut # None /\ pOut[1].next_cursor = None

\* C3, second part: the pages collected from cursor 0 are the filtered rows
C3_WalkComplete == (PageWalkDone /\ pStart = 0) => pAcc = FilteredP

\* C3, third part: following next_cursor moves the cursor forward and never
\* past the last filtered row, so the walk ends after at most N requests
C3_FollowAdvances ==
    pCursor' # pCursor =>
        /\ pCursor' > pCursor
        /\ pCursor' < Len(FilterRows(pRows, ToSet(pOut[1].effective)))

\* C3: every page is the exact slice, following next_cursor from 0 ends, and
\* the pages put together are the filtered rows, once each, in order
C3_Pagination == [](C3_PageExact /\ C3_WalkComplete) /\ [][C3_FollowAdvances]_vars

C3_Witness ==
    /\ PageWalkDone
    /\ pStart = 0
    /\ pLimit < Len(pAcc)
    /\ Len(pAcc) < Len(pRows)
    /\ pAcc = FilteredP

\* C4: a cursor beyond total_rows gives an empty page, no next_cursor, and
\* total_rows is still the number of filtered rows
C4_CursorBeyondTotal ==
    (pOut # None /\ pCursor > pOut[1].total_rows) =>
        /\ pOut[1].list = << >>
        /\ pOut[1].next_cursor = None
        /\ pOut[1].total_rows = Len(FilteredP)

C4_Witness ==
    /\ pOut # None
    /\ pOut[1].total_rows > 0
    /\ pCursor > pOut[1].total_rows
    /\ pOut[1].list = << >>

\* the pieces of the comma list that are not blank, stripped and upper-cased
NonBlankPiecesP ==
    {Upper(Strip(p)) : p \in {q \in ToSet(Split(pSjDivIn[1])) : Strip(q) # << >>}}

\* C10: effective is requested /\ allowlist, or the allowlist when that is
\* empty; it is never empty and within the allowlist; requested keeps the
\* codes that are not in the allowlist
C10_EffectiveSet ==
    pOut # None =>
        LET requested == ToSet(pOut[1].requested)
            effective == ToSet(pOut[1].effective)
            common == requested \cap SJ_DIV_ALLOWLIST_DEFAULT
        IN  /\ effective = IF common # {} THEN common ELSE SJ_DIV_ALLOWLIST_DEFAULT
            /\ pOut[1].effective # << >>
            /\ effective \subseteq SJ_DIV_ALLOWLIST_DEFAULT
            /\ Truthy(pSjDiv) => requested = {Upper(Strip(pSjDiv[1]))}
            /\ (~Truthy(pSjDiv) /\ Truthy(pSjDivIn) /\ NonBlankPiecesP # {})
                   => requested = NonBlankPiecesP

C10_Witness ==
    /\ pOut # None
    /\ Truthy(pSjDivIn)
    /\ ToSet(pOut[1].requested) \cap SJ_DIV_ALLOWLIST_DEFAULT = {}
    /\ <<"X", "X">> \in ToSet(pOut[1].requested)
    /\ pOut[1].effective = REQUIRED_SJ_DIV

\* the required types that no row of the input carries
AbsentTypesP ==
    {t \in ToSet(REQUIRED_SJ_DIV) : \A i \in 1..Len(pRows) : RowTag(pRows[i]) # t}

\* C11: missing is the required types that are on no row of the unfiltered
\* rows, and it is the missing that the request with no filter, cursor 0 and
\* limit 1 gets for the same rows, so every two requests get the same
C11_MissingIndependent ==
    pOut # None =>
        /\ ToSet(pOut[1].missing) = AbsentTypesP
        /\ Len(pOut[1].missing) = Cardinality(AbsentTypesP)
        /\ pOut[1].missing = PageOf(pRows, 0, 1, None, None).missing

C11_Witness ==
    /\ pOut # None
    /\ Truthy(pSjDiv)
    /\ pOut[1].effective = <<IS>>
    /\ \E i \in 1..Len(pRows) : RowTag(pRows[i]) = BS
    /\ pOut[1].total_rows = 0
    /\ BS \notin ToSet(pOut[1].missing)
    /\ IS \in ToSet(pOut[1].missing)

\* the positions of the input rows whose type is in the effective set
KeptP == {i \in 1..Len(pRows) : RowTag(pRows[i]) \in ToSet(pOut[1].effective)}

\* the position in the input of the k-th kept row
KthKeptP(k) == CHOOSE i \in KeptP : Cardinality({j \in KeptP : j <= i}) = k

\* C12: every row of the page has a type of the effective set, which is
\* within the allowlist; total_rows counts the input rows with such a type;
\* the page rows are the kept input rows in the order of the input
C12_ScopeLock ==
    pOut # None =>
        LET page == pOut[1].list
        IN  /\ \A n \in 1..Len(page) :
                  /\ RowTag(page[n]) \in ToSet(pOut[1].effective)
                  /\ RowTag(page[n]) \in SJ_DIV_ALLOWLIST_DEFAULT
                  /\ pCursor + n \in 1..Cardinality(KeptP)
                  /\ page[n] = pRows[KthKeptP(pCursor + n)]
            /\ pOut[1].total_rows = Cardinality(KeptP)

C12_Witness ==
    /\ pOut # None
    /\ ToSet(pOut[1].requested) \cap SJ_DIV_ALLOWLIST_DEFAULT = {}
    /\ pOut[1].requested # << >>
    /\ Len(pOut[1].list) = 2
    /\ pOut[1].total_rows < Len(pRows)
    /\ \E i \in 1..Len(pRows) : RowTag(pRows[i]) = <<"X", "X">>

----------------------------------------------------------------------------
(* Properties of the running proxy                                         *)

\* C1: every cached statement entry has status 000 or 013, and an entry with
\* status 013 has an empty row list
C1_CacheOnlyAccepted ==
    \A k \in DOMAIN FS_CACHE :
        /\ FS_CACHE[k].status \in {St000, St013}
        /\ FS_CACHE[k].status = St013 => FS_CACHE[k].list = Some(<< >>)

C1_Witness ==
    /\ out = SentBy(502, "fnltt")
    /\ \E k \in DOMAIN FS_CACHE : FS_CACHE[k].status = St013

\* the download gives nothing to install: it failed, the zip has no XML
\* member, or no node has a 6-character stock_code and 8-character corp_code
RefreshFails(resp) ==
    \/ resp.kind = "error"
    \/ resp.xml = None
    \/ \A i \in 1..Len(resp.xml[1]) :
          ~(Len(Strip(resp.xml[1][i].stock_code)) = 6
            /\ Len(Strip(resp.xml[1][i].corp_code)) = 8)

FailingManifests == {resp \in ManifestResponses : RefreshFails(resp)}

\* the snapshot is stale for handler h, which waits for the download
StaleFor(h) ==
    /\ pc[h] = "corpCode"
    /\ CORP_MAP # << >>
    /\ CORP_MAP_TS # None
    /\ now[h] - CORP_MAP_TS[1] >= CORP_MAP_TTL_SEC

\* C5: when the refresh fails while a stale snapshot holding the ticker is
\* installed, the request is served from that snapshot and does not fail
C5_StaleSnapshotServed ==
    [][\A h \in Handlers :
          (/\ StaleFor(h)
           /\ args[h][1].stock_code \in DOMAIN CORP_MAP
           /\ pc'[h] # "corpCode"
           /\ CORP_MAP_TS' = CORP_MAP_TS)
          => out' # SentBy(500, "corpCode")]_vars

\* C6, the step: a refresh that fails leaves CORP_MAP and CORP_MAP_TS as they
\* were
C6_FailedRefreshStep ==
    \A h \in Handlers :
        (pc[h] = "corpCode" /\ pc'[h] # "corpCode") =>
            \A resp \in FailingManifests :
                CorpReturn(h, resp) =>
                    /\ CORP_MAP' = CORP_MAP
                    /\ CORP_MAP_TS' = CORP_MAP_TS

\* C6, the state: what is installed is never empty
C6_NeverEmpty == CORP_MAP_TS # None => CORP_MAP # << >>

\* C6: a failed refresh changes neither CORP_MAP nor CORP_MAP_TS, and no empty
\* mapping is ever installed
C6_FailedRefreshFrame == []C6_NeverEmpty /\ [][C6_FailedRefreshStep]_vars

C6_Witness ==
    /\ out = SentBy(500, "corpCode")
    /\ CORP_MAP # << >>
    /\ CORP_MAP_TS = Some(0)
    /\ clock >= CORP_MAP_TTL_SEC

\* C7: a statement response with a status other than 000 and 013 ends the
\* request with a 502 that carries the status and the message, and leaves
\* the statement cache as it was
C7_BadStatusStep ==
    \A h \in Handlers :
        (pc[h] = "fnltt" /\ pc'[h] # "fnltt") =>
            \A resp \in FsResponses :
                (/\ resp.kind = "json"
                 /\ resp.status \notin {St000, St013}
                 /\ FsReturn(h, resp)) =>
                    /\ out' = SentBy(502, "fnltt")
                    /\ FsBody(h, resp) =
                           [status |-> resp.status, message |-> resp.message]
                    /\ FS_CACHE' = FS_CACHE
                    /\ FS_CACHE_TS' = FS_CACHE_TS

C7_BadStatusNotCached == [][C7_BadStatusStep]_vars

C7_Witness ==
    /\ out = SentBy(502, "fnltt")
    /\ FS_CACHE # << >>
    /\ \A k \in DOMAIN FS_CACHE : clock - FS_CACHE_TS[k] > FS_CACHE_TTL_SEC

\* C8: when the fetch fails while a stale entry for the key is in the cache,
\* the request is answered from that entry and does not fail
C8_StaleEntryServed ==
    [][\A h \in Handlers :
          (/\ pc[h] = "fnltt"
           /\ pc'[h] = "idle"
           /\ HandlerKey(args[h][1], info[h][1]) \in DOMAIN FS_CACHE
           /\ now[h] - FS_CACHE_TS[HandlerKey(args[h][1], info[h][1])]
                  > FS_CACHE_TTL_SEC)
          => (out' # None /\ out'[1].code = 200)]_vars

\* C9: with a stale snapshot installed, a request for a ticker that the
\* snapshot does not hold ends with 404 and with nothing else, whatever the
\* download does
C9_AbsentAlwaysNotFound ==
    [][\A h \in Handlers :
          (/\ StaleFor(h)
           /\ pc'[h] = "idle"
           /\ args[h][1].stock_code \notin DOMAIN CORP_MAP
           /\ args[h][1].stock_code \notin DOMAIN CORP_MAP')
          => out' = SentBy(404, "lookup")]_vars

----------------------------------------------------------------------------
(* The statement cache under fnltt_all requests for one ticker, with the   *)
(* history of the responses served from the cache.  A tick is longer than  *)
(* FS_CACHE_TTL_SEC, so two responses served inside the freshness window   *)
(* of one entry are served with no tick between them: the history starts   *)
(* again at every tick.                                                    *)

IdemRequests == {req \in GoodRequests : req.op = OpFnlttAll /\ req.stock_code = T1}

BodyKey(body) == FsKey(body.corp_code, body.bsns_year, body.reprt_code, body.fs_div)

\* the results the page request returns
PageResults(body) ==
    [rows |-> body.list, total_rows |-> body.total_rows,
     next_cursor |-> body.next_cursor, requested |-> body.sj_div_in_requested,
     effective |-> body.sj_div_in_effective,
     missing |-> body.sj_div_missing_required_in_data]

\* a response was served from the cache: it becomes lastHit
RecordHit(a, body) ==
    /\ lastHit' = Some([args |-> a, body |-> body,
                        again |-> /\ lastHit # None
                                  /\ lastHit[1].args = a
                                  /\ BodyKey(lastHit[1].body) = BodyKey(body)
                                  /\ ~fillsSince])
    /\ fillsSince' = FALSE

\* the cache was filled for key
RecordFill(key) ==
    /\ lastHit' = lastHit
    /\ fillsSince' = (fillsSince \/ (lastHit # None /\ BodyKey(lastHit[1].body) = key))

IdemStart ==
    /\ \E h \in Handlers, req \in IdemRequests :
          /\ Start(h, req)
          /\ IF StartResult(req).sent = SentBy(200, "cache")
             THEN RecordHit(CallArgs(req), StartBody(req))
             ELSE UNCHANGED histVars
    /\ UNCHANGED pageVars

IdemCorpReturn ==
    /\ \E h \in Handlers, resp \in ManifestResponses :
          /\ CorpReturn(h, resp)
          /\ IF CorpResult(h, resp).sent = SentBy(200, "cache")
             THEN RecordHit(args[h][1], CorpBody(h, resp))
             ELSE UNCHANGED histVars
    /\ UNCHANGED pageVars

IdemFsReturn ==
    /\ \E h \in Handlers, resp \in FsResponses :
          /\ FsReturn(h, resp)
          /\ IF FsResult(h, resp).sent = SentBy(200, "fnltt")
             THEN RecordFill(HandlerKey(args[h][1], info[h][1]))
             ELSE UNCHANGED histVars
    /\ UNCHANGED pageVars

IdemTick ==
    /\ Tick
    /\ lastHit' = None
    /\ fillsSince' = FALSE
    /\ UNCHANGED pageVars

NextIdem == IdemStart \/ IdemCorpReturn \/ IdemFsReturn \/ IdemTick

SpecIdem == Init /\ [][NextIdem]_vars

\* this step served a response from the cache to a request with the
\* arguments and the cache key of the last one served from the cache
RepeatedHit ==
    /\ out' = SentBy(200, "cache")
    /\ lastHit # None
    /\ lastHit'[1].args = lastHit[1].args
    /\ BodyKey(lastHit'[1].body) = BodyKey(lastHit[1].body)

\* C2 as stated: two requests with the same key, cursor, limit and filter,
\* both served from the cache with no tick between them, so both within the
\* freshness window of the cached entry, return the same results, whatever
\* runs concurrently
C2_SamePageTwice ==
    [][RepeatedHit
       => PageResults(lastHit'[1].body) = PageResults(lastHit[1].body)]_vars

\* C2 amended, the results: the two requests return the same results when the
\* entry of the key was not filled again between them
C2_SameEntryStep ==
    (RepeatedHit /\ ~fillsSince) =>
        PageResults(lastHit'[1].body) = PageResults(lastHit[1].body)

\* C2 amended, the call: a request that finds a fresh entry for its key is
\* answered from the cache, with no upstream statement call
C2_FreshEntryNoCall ==
    \A req \in IdemRequests :
        LET a == AcceptedArgs[req]
            found == CorpLookup(CORP_MAP, a.stock_code)
            key == HandlerKey(a, found[1])
        IN  (/\ CorpMapFresh(clock, CORP_MAP_TS, CORP_MAP)
             /\ found # None
             /\ key \in DOMAIN FS_CACHE
             /\ clock - FS_CACHE_TS[key] <= FS_CACHE_TTL_SEC)
            => /\ StartResult(req).sent = SentBy(200, "cache")
               /\ StartResult(req).next = Idle

\* C2 amended: two requests with the same key, cursor, limit and filter that
\* are served from the cache return the same results provided no fill of
\* that key was installed between them; a fresh entry is served without an
\* upstream statement call
C2_SamePageSameEntry == []C2_FreshEntryNoCall /\ [][C2_SameEntryStep]_vars

C2_Witness ==
    /\ out = SentBy(200, "cache")
    /\ lastHit # None
    /\ lastHit[1].again
    /\ lastHit[1].body.total_rows > 0

----------------------------------------------------------------------------
(* Further properties of the proxy under fnltt_all requests                *)

\* a fnltt_all response body that reports no rows
EmptyPage(body) ==
    /\ body.total_rows = 0
    /\ body.list = << >>
    /\ body.next_cursor = None

\* C13, the fill: for a handler that waits for its fetch, a 013 response
\* is answered 200 with an empty page and is cached with an empty row list
C13_NoDataFill ==
    \A h \in Handlers :
        pc[h] = "fnltt" =>
            \A resp \in FsResponses :
                (resp.kind = "json" /\ resp.status = St013) =>
                    LET key == HandlerKey(args[h][1], info[h][1])
                        r == FsResult(h, resp)
                    IN  /\ r.sent = SentBy(200, "fnltt")
                        /\ EmptyPage(FsBody(h, resp))
                        /\ r.FS_CACHE[key].status = St013
                        /\ r.FS_CACHE[key].list = Some(<< >>)
                        /\ r.FS_CACHE_TS[key] = now[h]

\* C13, the fill as a step: the handler that installs a 013 entry is answered
\* 200, and the entry has no rows and the time the handler read
C13_NoDataFillStep ==
    \A h \in Handlers :
        (pc[h] = "fnltt" /\ pc'[h] # "fnltt") =>
            LET key == HandlerKey(args[h][1], info[h][1])
            IN  (/\ key \in DOMAIN FS_CACHE'
                 /\ FS_CACHE'[key].status = St013
                 /\ <<FS_CACHE', FS_CACHE_TS'>> # <<FS_CACHE, FS_CACHE_TS>>)
                => /\ out' = SentBy(200, "fnltt")
                   /\ FS_CACHE'[key].list = Some(<< >>)
                   /\ FS_CACHE_TS'[key] = now[h]

\* C13, a later request that needs no refresh: while the no-data entry is
\* the fresh entry of the key, the request is answered from it, 200 with an
\* empty page
C13_NoDataServed ==
    \A req \in FsRequests \ RejectedRequests :
        LET a == AcceptedArgs[req]
            found == CorpLookup(CORP_MAP, a.stock_code)
            key == HandlerKey(a, found[1])
        IN  (/\ CorpMapFresh(clock, CORP_MAP_TS, CORP_MAP)
             /\ found # None
             /\ key \in DOMAIN FS_CACHE
             /\ FS_CACHE[key].status = St013
             /\ clock - FS_CACHE_TS[key] <= FS_CACHE_TTL_SEC)
            => /\ StartResult(req).sent = SentBy(200, "cache")
               /\ EmptyPage(StartBody(req))

\* C13, a later request that waited for a refresh of the snapshot: answered
\* from the no-data entry in the same way
C13_NoDataServedStep ==
    \A h \in Handlers :
        (/\ pc[h] = "corpCode"
         /\ pc'[h] = "idle"
         /\ out' = SentBy(200, "cache")) =>
            \A resp \in ManifestResponses :
                (/\ CorpReturn(h, resp)
                 /\ FS_CACHE[HandlerKey(args[h][1],
                        CorpLookup(CORP_MAP', args[h][1].stock_code)[1])].status = St013)
                => EmptyPage(CorpBody(h, resp))

----------------------------------------------------------------------------
(* Further properties of the running proxy                                 *)

ManifestError == [kind |-> "error", xml |-> None]
FsError == [kind |-> "error", status |-> << >>, message |-> << >>, list |-> None]
PlainError == [kind |-> "error", status |-> << >>, message |-> << >>]

\* the upstream call handler h waits for fails in transport in this step
TransportFails(h) ==
    \/ pc[h] = "corpCode" /\ CorpReturn(h, ManifestError)
    \/ pc[h] = "fnltt" /\ FsReturn(h, FsError)
    \/ pc[h] \in {"company", "list"} /\ PlainReturn(h, PlainError)

\* C14: a transport failure of an upstream call ends the request with a 502,
\* and the request makes no further call
C14_TransportIs502 ==
    [][\A h \in Handlers :
          (pc[h] # "idle" /\ pc'[h] # pc[h] /\ TransportFails(h)) =>
              /\ pc'[h] = "idle"
              /\ out' # None
              /\ out'[1].code = 502]_vars

----------------------------------------------------------------------------
(* Properties of the validation                                            *)

\* the details of the 400 that the requests of BadRequests get
BadDetails == {Validate(req)[1] : req \in BadRequests \cap RejectedRequests}

\* C15, the request: every request of BadRequests, which holds one request
\* for each rule of the validation, is answered 400 before the handler
\* reaches an await
C15_RejectedAtOnce ==
    /\ BadRequests \subseteq RejectedRequests
    /\ Cardinality(BadDetails) = 11
    /\ \A req \in BadRequests :
          StartResult(req) = [next |-> Idle, sent |-> SentBy(400, "validate")]

\* C15, the step: the step that answers 400 starts no upstream call and
\* leaves the snapshot, its timestamp and the statement cache as they were
C15_RejectedStep ==
    out' = SentBy(400, "validate") =>
        /\ pc' = pc
        /\ CORP_MAP' = CORP_MAP
        /\ CORP_MAP_TS' = CORP_MAP_TS
        /\ FS_CACHE' = FS_CACHE
        /\ FS_CACHE_TS' = FS_CACHE_TS

\* C15: a request the validation rejects gets its 400 without an upstream
\* call and without a change to the snapshot, its timestamp or the cache
C15_ValidationFirst == []C15_RejectedAtOnce /\ [][C15_RejectedStep]_vars

C15_Witness ==
    /\ out = SentBy(400, "validate")
    /\ CORP_MAP # << >>
    /\ FS_CACHE # << >>
    /\ \E h \in Handlers : pc[h] = "fnltt"
    /\ clock > 0

----------------------------------------------------------------------------
(* Properties of the resolver                                              *)

\* the nodes of a manifest that the refresh keeps
UsableNodes(resp) ==
    {i \in 1..Len(resp.xml[1]) :
        /\ Len(Strip(resp.xml[1][i].stock_code)) = 6
        /\ Len(Strip(resp.xml[1][i].corp_code)) = 8}

\* map is the mapping of the manifest resp, all of it and nothing else
MappingOf(map, resp) ==
    /\ resp.kind = "zip"
    /\ resp.xml # None
    /\ UsableNodes(resp) # {}
    /\ DOMAIN map = {Strip(resp.xml[1][i].stock_code) : i \in UsableNodes(resp)}
    /\ \A t \in DOMAIN map :
          \E i \in UsableNodes(resp) :
              /\ Strip(resp.xml[1][i].stock_code) = t
              /\ map[t].corp_code = Strip(resp.xml[1][i].corp_code)
              /\ map[t].corp_name = Strip(resp.xml[1][i].corp_name)

\* C16, the state: nothing is installed, or the mapping of one manifest with
\* a timestamp; a record is stored under its 6-character ticker and has an
\* 8-character corp_code
C16_ColdOrWhole ==
    /\ \/ CORP_MAP = << >> /\ CORP_MAP_TS = None
       \/ /\ CORP_MAP # << >>
          /\ CORP_MAP_TS # None
          /\ \E resp \in ManifestResponsesCorp : MappingOf(CORP_MAP, resp)
    /\ \A t \in DOMAIN CORP_MAP :
          /\ Len(t) = 6
          /\ CORP_MAP[t].stock_code = t
          /\ Len(CORP_MAP[t].corp_code) = 8

\* C16, the step: the mapping and the timestamp change in the same step, the
\* return of one download: the mapping becomes that of the manifest and the
\* timestamp the time the handler read before the download
C16_InstallStep ==
    (CORP_MAP' # CORP_MAP \/ CORP_MAP_TS' # CORP_MAP_TS) =>
        \E h \in Handlers :
            /\ pc[h] = "corpCode"
            /\ pc'[h] # "corpCode"
            /\ CORP_MAP_TS' = Some(now[h])
            /\ \E resp \in ManifestResponsesCorp :
                  /\ MappingOf(CORP_MAP', resp)
                  /\ CorpReturn(h, resp)

\* C16: the snapshot is unset with no timestamp, or it is the whole mapping
\* of one successful refresh with the timestamp of that refresh
C16_SnapshotWhole == []C16_ColdOrWhole /\ [][C16_InstallStep]_vars

C16_Witness ==
    /\ DOMAIN CORP_MAP = {T2}
    /\ CORP_MAP_TS # None
    /\ CORP_MAP_TS[1] > 0
    /\ CORP_MAP_TS[1] < clock
    /\ out = SentBy(404, "lookup")
    /\ \E h \in Handlers : pc[h] = "corpCode"

----------------------------------------------------------------------------
(* Properties of the statement cache under concurrent handlers             *)

\* the entry of key k, payload and timestamp, as a reader finds it
EntryOf(cache, cache_ts, k) == <<DictGet(cache, k), DictGet(cache_ts, k)>>

\* handler h installs the entry of key k in this step: the payload it
\* fetched and the time it read before the fetch, both at once
InstalledBy(h, k) ==
    /\ pc[h] = "fnltt"
    /\ pc'[h] = "idle"
    /\ out' = SentBy(200, "fnltt")
    /\ k = HandlerKey(args[h][1], info[h][1])
    /\ k \in DOMAIN FS_CACHE'
    /\ k \in DOMAIN FS_CACHE_TS'
    /\ FS_CACHE_TS'[k] = now[h]
    /\ \E resp \in FsResponses :
          /\ resp.kind = "json"
          /\ FS_CACHE'[k].status = resp.status
          /\ FS_CACHE'[k].list \in {resp.list, Some(<< >>)}
          /\ FsReturn(h, resp)

\* C17, the state: the two dictionaries have the same keys
C17_SameKeys == DOMAIN FS_CACHE = DOMAIN FS_CACHE_TS

\* C17, the step: what a reader finds for a key changes only in the step of
\* one fill, which installs the payload and the timestamp together
C17_ReplacedTogether ==
    \A k \in DOMAIN FS_CACHE' \cup DOMAIN FS_CACHE_TS' \cup DOMAIN FS_CACHE
             \cup DOMAIN FS_CACHE_TS :
        EntryOf(FS_CACHE', FS_CACHE_TS', k) # EntryOf(FS_CACHE, FS_CACHE_TS, k) =>
            \E h \in Handlers : InstalledBy(h, k)

\* C17: FS_CACHE and FS_CACHE_TS have the same keys, and the payload and the
\* timestamp of a key are always those that one fill installed together
C17_AtomicEntry == []C17_SameKeys /\ [][C17_ReplacedTogether]_vars

C17_Witness ==
    /\ out = SentBy(200, "fnltt")
    /\ \E k \in DOMAIN FS_CACHE :
          /\ FS_CACHE_TS[k] > 0
          /\ FS_CACHE[k].list # Some(<< >>)
          /\ \E h \in Handlers :
                /\ pc[h] = "fnltt"
                /\ now[h] < FS_CACHE_TS[k]
                /\ HandlerKey(args[h][1], info[h][1]) = k

\* what a fill caches of the response resp
PayloadOf(resp) ==
    [status |-> resp.status, message |-> resp.message,
     list |-> IF resp.status = St013 THEN Some(<< >>) ELSE resp.list]

\* the page of body is cut from the rows of payload
CutFrom(body, payload) ==
    LET kept == FilterRows(RowsOf(payload), ToSet(body.sj_div_in_effective))
    IN  /\ body.status = payload.status
        /\ body.message = payload.message
        /\ body.total_rows = Len(kept)
        /\ body.list = SubSeq(kept, body.cursor + 1,
                              Min(body.cursor + body.limit, Len(kept)))

\* C18, the fill: for a handler that waits for its fetch, a 000 or 013
\* response puts its own payload in the place of whatever the key holds,
\* touches no other key, and the page of the request is cut from that payload
C18_OwnPayload ==
    \A h \in Handlers :
        pc[h] = "fnltt" =>
            \A resp \in FsResponses :
                (resp.kind = "json" /\ resp.status \in {St000, St013}) =>
                    LET k == HandlerKey(args[h][1], info[h][1])
                        r == FsResult(h, resp)
                    IN  /\ r.FS_CACHE[k] = PayloadOf(resp)
                        /\ \A j \in DOMAIN r.FS_CACHE \ {k} :
                              j \in DOMAIN FS_CACHE /\ r.FS_CACHE[j] = FS_CACHE[j]
                        /\ r.sent = SentBy(200, "fnltt")
                        /\ CutFrom(FsBody(h, resp), PayloadOf(resp))

\* C18, the fill as a step: the handler answered 200 after its fetch leaves
\* in the cache the payload of one response, whatever the key held, and
\* leaves the other keys alone
C18_FillStep ==
    \A h \in Handlers :
        (pc[h] = "fnltt" /\ pc'[h] # "fnltt" /\ out' = SentBy(200, "fnltt")) =>
            LET k == HandlerKey(args[h][1], info[h][1])
            IN  /\ \E resp \in FsResponses :
                      /\ resp.kind = "json"
                      /\ FS_CACHE'[k] = PayloadOf(resp)
                      /\ FsReturn(h, resp)
                /\ \A j \in DOMAIN FS_CACHE' \ {k} :
                      j \in DOMAIN FS_CACHE /\ FS_CACHE'[j] = FS_CACHE[j]

\* C18, the race: two handlers that both found the entry of a key absent or
\* stale both wait for their own fetch
C18_BothFetch ==
    \A req \in IdemRequests :
        LET a == AcceptedArgs[req]
            found == CorpLookup(CORP_MAP, a.stock_code)
        IN  (/\ CorpMapFresh(clock, CORP_MAP_TS, CORP_MAP)
             /\ found # None
             /\ FsMustFetch(DictGet(FS_CACHE, HandlerKey(a, found[1])),
                            DictGet(FS_CACHE_TS, HandlerKey(a, found[1])), clock))
            => StartResult(req).next.pc = "fnltt"

\* C18: racing fills of a key each fetch, the fill installed last replaces
\* the entry as a whole, and each request answers from its own payload
C18_LastFillWins ==
    [](C18_BothFetch /\ C18_OwnPayload) /\ [][C18_FillStep]_vars

C18_Witness ==
    /\ out = SentBy(200, "fnltt")
    /\ \A h \in Handlers : pc[h] = "idle"
    /\ lastHit # None
    /\ fillsSince
    /\ lastHit[1].body.total_rows = 1
    /\ FS_CACHE[BodyKey(lastHit[1].body)].status = St013

----------------------------------------------------------------------------
(* Refresh trigger of the resolver                                         *)

\* the condition the specification gives for a refresh: the snapshot is
\* unset or its age exceeds the freshness interval
AgeExceeds ==
    \/ CORP_MAP_TS = None
    \/ CORP_MAP = << >>
    \/ clock - CORP_MAP_TS[1] > CORP_MAP_TTL_SEC

\* C19: a request downloads the manifest if and only if the snapshot is
\* unset or older than 24h, so at an age of exactly 24h it downloads nothing
\* and leaves the snapshot alone; and the snapshot changes only when the
\* download of a request returns
C19_RefreshIffExceeds ==
    [][/\ \A h \in Handlers :
             /\ (pc[h] = "idle" /\ pc'[h] = "corpCode") => AgeExceeds
             /\ (pc[h] = "idle" /\ pc'[h] \notin {"idle", "corpCode"}) => ~AgeExceeds
       /\ (CORP_MAP' # CORP_MAP \/ CORP_MAP_TS' # CORP_MAP_TS) =>
             \E h \in Handlers : pc[h] = "corpCode" /\ pc'[h] # "corpCode"]_vars

----------------------------------------------------------------------------
(* Order of the timestamps                                                 *)

\* C20 as stated: a timestamp of the statement cache, once set, never
\* decreases, and neither does the timestamp of the resolver
C20_NeverBackwards ==
    [][/\ \A k \in DOMAIN FS_CACHE_TS :
             k \in DOMAIN FS_CACHE_TS' /\ FS_CACHE_TS'[k] >= FS_CACHE_TS[k]
       /\ CORP_MAP_TS # None =>
             (CORP_MAP_TS' # None /\ CORP_MAP_TS'[1] >= CORP_MAP_TS[1])]_vars

\* C20, the stored values: no timestamp is later than the clock
C20_NotAhead ==
    /\ \A k \in DOMAIN FS_CACHE_TS : FS_CACHE_TS[k] <= clock
    /\ CORP_MAP_TS # None => CORP_MAP_TS[1] <= clock

\* C20, an install: a timestamp once set stays set, and a step that changes
\* one is the return of the call of a handler, which stores the clock value
\* that handler read before it awaited, for its own key only
C20_StampStep ==
    /\ DOMAIN FS_CACHE_TS \subseteq DOMAIN FS_CACHE_TS'
    /\ CORP_MAP_TS # None => CORP_MAP_TS' # None
    /\ FS_CACHE_TS' # FS_CACHE_TS =>
          \E h \in Handlers :
              /\ pc[h] = "fnltt" /\ pc'[h] # "fnltt"
              /\ LET k == HandlerKey(args[h][1], info[h][1])
                 IN  /\ FS_CACHE_TS'[k] = now[h]
                     /\ \A j \in DOMAIN FS_CACHE_TS' \ {k} :
                           j \in DOMAIN FS_CACHE_TS
                           /\ FS_CACHE_TS'[j] = FS_CACHE_TS[j]
    /\ CORP_MAP_TS' # CORP_MAP_TS =>
          \E h \in Handlers :
              /\ pc[h] = "corpCode" /\ pc'[h] # "corpCode"
              /\ CORP_MAP_TS' = Some(now[h])

\* C20, amended: every stored timestamp is the clock value the installing
\* request read before it awaited its upstream call, so it is never later
\* than the clock and never unset again, and it decreases only when a
\* request that read the clock earlier installs after one that read it later
C20_StampIsClockRead ==
    []C20_NotAhead /\ [][C20_StampStep]_vars

C20_Witness ==
    /\ out = SentBy(200, "fnltt")
    /\ CORP_MAP_TS # None
    /\ \E k \in DOMAIN FS_CACHE_TS : FS_CACHE_TS[k] < clock
    /\ \E h \in Handlers : pc[h] = "fnltt" /\ now[h] = clock

====
